---- MODULE Spec2Model ----
(***************************************************************************)
(* A model of teakit's task layer (src/src/task.py, src/src/utilities.py): *)
(* the dependency-graph builder TaskGraph.from_tasks, the layered executor *)
(* TaskExecutor.execute with its worker processes, and partition.          *)
(*                                                                         *)
(* Conventions.  A Python None is the empty sequence <<>> where the other  *)
(* values are one-element sequences <<v>> (Task.outputs), and the record   *)
(* field isNone where the other values are sets (Task.dependencies).  A    *)
(* Task object is named by its index in the caller's list `input`; lists   *)
(* of tasks are sequences of such indices, so two tasks with equal fields  *)
(* remain two objects.  Python indices are 0-based, TLA+ sequences 1-based: *)
(* tasks[i] of the code is tasks[i + 1] here.                              *)
(***************************************************************************)
EXTENDS Integers, Sequences, FiniteSets, TLC

\* ------------------------------------------------------------------ bounds
MaxTasks == 3
MaxData == 5
MaxPartitions == 3
MaxProcesses == 2
MaxAgainTasks == 2
MaxLayers == 3
MaxInsertDepth == 4

\* ------------------------------------------------------------------ identity
\* int.bit_length()
RECURSIVE BitLength(_)
BitLength(n) == IF n = 0 THEN 0 ELSE 1 + BitLength(n \div 2)

\* int.to_bytes(length, "big") for n >= 0 that fits in length bytes
RECURSIVE ToBytes(_, _)
ToBytes(n, len) ==
    IF len = 0 THEN <<>> ELSE Append(ToBytes(n \div 256, len - 1), n % 256)

\* TaskIdentifier.task_hash.  `bit_length() + 7 // 8` is bit_length() + 0, so the
\* id is written on bit_length() bytes; the context is a string of code points
\* below 128, whose UTF-8 bytes are the code points.  SHA-256 is taken to be
\* injective: the digest is represented by the bytes that were hashed.
task_hash(identifier) ==
    ToBytes(identifier[1], BitLength(identifier[1])) \o identifier[2]

\* TaskIdentifier.get_value on a tuple identifier
get_value(identifier) == identifier

\* ------------------------------------------------------------------ Task
NoDependencies == [isNone |-> TRUE, ids |-> {}]
SomeDependencies(S) == [isNone |-> FALSE, ids |-> S]

\* An argument is a literal or a ForwardResourcesFrom(id) placeholder.  The
\* class lives in the module `resource`; task.py reads only its field id.
Literal(v) == [fwd |-> FALSE, id |-> <<0, <<>>>>, value |-> v]
ForwardResourcesFrom(id) == [fwd |-> TRUE, id |-> id, value |-> 0]

\* Task.resolve_dependencies: every placeholder's id joins the dependency set,
\* which is created when it was None.
RECURSIVE resolve_dependencies(_, _)
resolve_dependencies(args, dependencies) ==
    IF args = <<>> THEN dependencies
    ELSE IF Head(args).fwd
         THEN resolve_dependencies(Tail(args),
                  SomeDependencies(dependencies.ids \cup {Head(args).id}))
         ELSE resolve_dependencies(Tail(args), dependencies)

\* Task(action, identifier, args, dependencies) followed by __post_init__
Task(identifier, args, dependencies) ==
    [identifier |-> identifier, args |-> args,
     dependencies |-> resolve_dependencies(args, dependencies),
     outputs |-> <<>>]

\* ------------------------------------------------------------------ TaskGraph
\* The linked layers root -> next -> ... are the sequence g: g[d + 1] is the
\* task list of the node of depth d (every node is created with depth
\* self.depth + 1, so depths are consecutive from 0).

total_depth(g) == Len(g) - 1

tasks_at(g, depth) == IF depth + 1 \in DOMAIN g THEN g[depth + 1] ELSE <<>>

insert_at(g, value, depth) ==
    IF depth \in 0..total_depth(g)
    THEN [g EXCEPT ![depth + 1] = Append(@, value)]
    ELSE IF depth > total_depth(g)
         THEN Append(g, <<value>>)
         ELSE g

\* list.pop(i), the list after the removal (i is the 0-based index)
PopLast(list, i) == [k \in 1..(Len(list) - 1) |-> list[k]]
Pop(list, i) == [k \in 1..(Len(list) - 1) |-> IF k <= i THEN list[k] ELSE list[k + 1]]

\* `if len(root.tasks) == 0` after the seed loop
NoRootNodesNever(g) == FALSE
NoRootNodes(g) == Len(g[1]) = 0

\* deepest = depth if deepest < depth else deepest
UpdateDeepestLast(deepest, depth) == depth
UpdateDeepest(deepest, depth) == IF deepest < depth THEN depth ELSE deepest

Status(kind, message) == [status |-> kind, message |-> message]
Pending == [kind |-> "pending", error |-> Status("PENDING", "")]
Ok == [kind |-> "Ok", error |-> Status("SUCCESS", "")]
Err(status) == [kind |-> "Err", error |-> status]

ErrNoRootNodes == Err(Status("FAIL", "<TaskGraph: no root nodes>"))
ErrExcess == Err(Status("FAIL", "<TaskGraph excess dependencies found>"))
ErrCircular == Err(Status("FAIL", "<TaskGraph circular or missing dependency>"))

\* All the orders in which the elements of a set can be iterated.
Orderings(S) ==
    {s \in [1..Cardinality(S) -> S] : \A a, b \in DOMAIN s : a # b => s[a] # s[b]}

\* ------------------------------------------------------------------ partition
Max(a, b) == IF a > b THEN a ELSE b

\* the group of item i (0-based): `i % partitions`
GroupIndexNext(i, partitions) == (i + 1) % partitions
GroupIndex(i, partitions) == i % partitions

\* for i, v in enumerate(data): partition_data[i % partitions].append(v)
RECURSIVE Distribute(_, _, _, _)
Distribute(data, k, partitions, partition_data) ==
    IF k = Len(data) THEN partition_data
    ELSE Distribute(data, k + 1, partitions,
            [partition_data EXCEPT ![GroupIndex(k, partitions) + 1] = Append(@, data[k + 1])])

\* partition(data, max_partitions) for max_partitions >= 1
partition(data, max_partitions) ==
    LET partitions == max_partitions - Max(0, max_partitions - Len(data))
    IN Distribute(data, 0, partitions, [g \in 1..partitions |-> <<>>])

VARIABLES
    input,      \* the Task objects of the caller, by index
    tasks,      \* from_tasks: the caller's list, consumed by the builder
    root,       \* from_tasks: the graph under construction
    pc,         \* from_tasks: position in the function
    i, offset, length, passes, reset,   \* from_tasks: its locals
    result,     \* from_tasks: the returned Result (Ok carries root)
    examined,   \* from_tasks: the tasks the `for` has yielded in the current pass
    first,      \* the outcome of an earlier from_tasks on an equal list
    p_data, p_max,  \* partition: its arguments
    p_ret,          \* partition: what the call did (pending, returned, raised)
    executor,       \* TaskExecutor.from_tasks: "none", "Ok" or "Err"
    outputs,        \* TaskExecutor.outputs, the resource pool: hash -> value
    max_processes,  \* execute: its argument
    epc,            \* execute: position of the supervisor
    iter_depth,     \* TaskGraph._iter_depth of the executor's graph
    to_spawn,       \* execute: (partition_i, process_i, task) still to start
    processes,      \* execute: the started Process objects, by task
    shared_results, \* execute: the manager list of the current layer
    rd, jn,         \* execute: index of the result loop, of the join loop
    wstate,         \* per task: its worker process, "none"/"started"/"exited"
    wresources,     \* per task: the resources its worker was started with
    wcall,          \* per task: whether and with what its action was called
    wresult,        \* per task: the entry its worker appended
    ins_value, ins_depth,   \* insert_at called on root: its arguments
    ins_ret                 \* insert_at called on root: "idle" or "returned"

gvars == <<input, tasks, root, pc, i, offset, length, passes, reset, result, first,
           examined>>
pvars == <<p_data, p_max, p_ret>>
ivars == <<ins_value, ins_depth, ins_ret>>
evars == <<executor, outputs, max_processes, epc, iter_depth, to_spawn, processes,
           shared_results, rd, jn, wstate, wresources, wcall, wresult>>
vars == <<gvars, pvars, ivars, evars>>

\* -------- the two inner loops over the graph, for one dependency
RECURSIVE ScanTasks(_, _, _, _)
ScanTasks(dep, layer, depth, acc) ==
    IF layer = <<>> THEN acc
    ELSE ScanTasks(dep, Tail(layer), depth,
            IF task_hash(get_value(dep))
                 = task_hash(get_value(input[Head(layer)].identifier))
            THEN [found |-> acc.found + 1,
                  deepest |-> UpdateDeepest(acc.deepest, depth)]
            ELSE acc)

RECURSIVE ScanDepths(_, _, _, _)
ScanDepths(dep, g, depth, acc) ==
    IF depth <= total_depth(g)
    THEN ScanDepths(dep, g, depth + 1, ScanTasks(dep, tasks_at(g, depth), depth, acc))
    ELSE acc

\* for current_dependency in current_task.dependencies, in the order ord
RECURSIVE ScanDependencies(_, _, _)
ScanDependencies(ord, g, acc) ==
    IF ord = <<>> THEN acc
    ELSE ScanDependencies(Tail(ord), g, ScanDepths(Head(ord), g, 0, acc))

\* ------------------------------------------------------------------ inputs
\* Identifiers (id, context): two of one family and one of another.
GraphIdentifiers == {<<1, <<>>>>, <<1, <<97>>>>, <<2, <<>>>>}

\* dependencies=None, an explicitly supplied empty set, or a set of one or two
GraphDependencies ==
    {NoDependencies, SomeDependencies({})} \cup
    {SomeDependencies({a, b}) : a \in GraphIdentifiers, b \in GraphIdentifiers}

GraphTasks == {Task(id, <<>>, d) : id \in GraphIdentifiers, d \in GraphDependencies}

\* The builder and the executor compare identifiers by hash only, and the three
\* identifiers have three hashes, so the identifiers of a list are taken in a
\* fixed order: each task repeats the identifier of an earlier task or bears
\* the next one of IdentifierOrder.
IdentifierOrder == << <<1, <<>>>>, <<1, <<97>>>>, <<2, <<>>>> >>

EarlierIdentifiers(inp, k) == {inp[j].identifier : j \in 1..(k - 1)}

IdentifiersInOrder(inp) ==
    \A k \in DOMAIN inp :
        \/ inp[k].identifier \in EarlierIdentifiers(inp, k)
        \/ /\ Cardinality(EarlierIdentifiers(inp, k)) < Len(IdentifierOrder)
           /\ inp[k].identifier
                = IdentifierOrder[Cardinality(EarlierIdentifiers(inp, k)) + 1]

GraphInputs ==
    {inp \in UNION {[1..n -> GraphTasks] : n \in 0..MaxTasks} : IdentifiersInOrder(inp)}

BuilderStart(inp) ==
    /\ tasks = [k \in 1..Len(inp) |-> k]
    /\ root = << <<>> >>
    /\ pc = "seed"
    /\ i = 0 /\ offset = 0 /\ length = Len(inp)
    /\ passes = 0 /\ reset = FALSE
    /\ result = Pending
    /\ examined = <<>>

NoCall == [invoked |-> FALSE, received |-> <<>>, raised |-> FALSE,
           output |-> <<>>, status |-> Status("PENDING", "")]
NoEntry == [partition_i |-> 0, process_i |-> 0, task |-> 0, outputs |-> <<>>,
            status |-> Status("PENDING", "")]
EmptyPool == [h \in {} |-> 0]

PartitionIdle ==
    /\ p_data = <<>> /\ p_max = 1
    /\ p_ret = [state |-> "idle", value |-> <<>>]

\* TaskExecutor not constructed
ExecutorNone ==
    /\ executor = "none"
    /\ outputs = EmptyPool
    /\ max_processes = 1
    /\ epc = "idle"
    /\ iter_depth = 0
    /\ to_spawn = <<>> /\ processes = <<>> /\ shared_results = <<>>
    /\ rd = 0 /\ jn = 0
    /\ wstate = [t \in DOMAIN input |-> "none"]
    /\ wresources = [t \in DOMAIN input |-> EmptyPool]
    /\ wcall = [t \in DOMAIN input |-> NoCall]
    /\ wresult = [t \in DOMAIN input |-> NoEntry]

InsertIdle == ins_value = 0 /\ ins_depth = 0 /\ ins_ret = "idle"

NotCalledBefore ==
    first = [kind |-> "pending", error |-> Pending.error, graph |-> << <<>> >>]

InitGraph ==
    /\ input \in GraphInputs
    /\ BuilderStart(input)
    /\ NotCalledBefore
    /\ PartitionIdle
    /\ ExecutorNone
    /\ InsertIdle

\* ------------------------------------------------------------------ from_tasks
\* one iteration of `while i - offset < length`
SeedStep ==
    /\ pc = "seed"
    /\ i - offset < length
    /\ IF input[tasks[i - offset + 1]].dependencies.isNone
       THEN /\ root' = [root EXCEPT ![1] = Append(@, tasks[i - offset + 1])]
            /\ tasks' = Pop(tasks, i - offset)
            /\ offset' = offset + 1
            /\ length' = length - 1
       ELSE UNCHANGED <<root, tasks, offset, length>>
    /\ i' = i + 1
    /\ UNCHANGED <<input, pc, passes, reset, result, first, examined>>
    /\ UNCHANGED <<pvars, ivars, evars>>

\* the seed loop is over: `if len(root.tasks) == 0`
SeedEnd ==
    /\ pc = "seed"
    /\ ~(i - offset < length)
    /\ IF NoRootNodes(root)
       THEN /\ result' = ErrNoRootNodes
            /\ pc' = "done"
            /\ UNCHANGED passes
       ELSE /\ passes' = 0
            /\ pc' = "while"
            /\ UNCHANGED result
    /\ UNCHANGED <<input, tasks, root, i, offset, length, reset, first, examined>>
    /\ UNCHANGED <<pvars, ivars, evars>>

\* `while len(tasks) > 0 and passes < 2`, and what follows the loop
WhileTest ==
    /\ pc = "while"
    /\ IF Len(tasks) > 0 /\ passes < 2
       THEN /\ reset' = FALSE
            /\ i' = 0
            /\ examined' = <<>>
            /\ pc' = "for"
            /\ UNCHANGED result
       ELSE /\ result' = IF passes > 1 \/ Len(tasks) > 0 THEN ErrCircular ELSE Ok
            /\ pc' = "done"
            /\ UNCHANGED <<reset, i, examined>>
    /\ UNCHANGED <<input, tasks, root, offset, length, passes, first>>
    /\ UNCHANGED <<pvars, ivars, evars>>

\* one iteration of `for i, current_task in enumerate(tasks)`: the list
\* iterator yields tasks[i] while i < len(tasks), the length being read anew
\* at every step.
ForStep ==
    /\ pc = "for"
    /\ i < Len(tasks)
    /\ LET current_task == input[tasks[i + 1]]
       IN IF current_task.dependencies.isNone
          THEN UNCHANGED <<tasks, root, reset, result, pc>>
          ELSE \E ord \in Orderings(current_task.dependencies.ids) :
                 LET scan == ScanDependencies(ord, root, [found |-> 0, deepest |-> 0])
                 IN IF scan.found = Cardinality(current_task.dependencies.ids)
                    THEN /\ root' = insert_at(root, tasks[i + 1], scan.deepest + 1)
                         /\ tasks' = Pop(tasks, i)
                         /\ reset' = TRUE
                         /\ UNCHANGED <<result, pc>>
                    ELSE IF scan.found > Cardinality(current_task.dependencies.ids)
                         THEN /\ result' = ErrExcess
                              /\ pc' = "done"
                              /\ UNCHANGED <<tasks, root, reset>>
                         ELSE UNCHANGED <<tasks, root, reset, result, pc>>
    /\ i' = i + 1
    /\ examined' = Append(examined, tasks[i + 1])
    /\ UNCHANGED <<input, offset, length, passes, first>>
    /\ UNCHANGED <<pvars, ivars, evars>>

\* the for loop is exhausted: `passes = passes + 1 if reset is False else 0`
ForEnd ==
    /\ pc = "for"
    /\ ~(i < Len(tasks))
    /\ passes' = IF reset = FALSE THEN passes + 1 ELSE 0
    /\ pc' = "while"
    /\ UNCHANGED <<input, tasks, root, i, offset, length, reset, result, first, examined>>
    /\ UNCHANGED <<pvars, ivars, evars>>

\* from_tasks is called once more, on a list equal to the first one
CallAgain ==
    /\ pc = "done"
    /\ first.kind = "pending"
    /\ first' = [kind |-> result.kind, error |-> result.error, graph |-> root]
    /\ tasks' = [k \in 1..Len(input) |-> k]
    /\ root' = << <<>> >>
    /\ pc' = "seed"
    /\ i' = 0 /\ offset' = 0 /\ length' = Len(input)
    /\ passes' = 0 /\ reset' = FALSE
    /\ result' = Pending
    /\ examined' = <<>>
    /\ UNCHANGED input
    /\ UNCHANGED <<pvars, ivars, evars>>

NextGraph == SeedStep \/ SeedEnd \/ WhileTest \/ ForStep \/ ForEnd \/ CallAgain

SpecGraph == InitGraph /\ [][NextGraph]_vars

\* ------------------------------------------------------------------ Task.execute
\* Task.id_as_int
id_as_int(t) == task_hash(input[t].identifier)

FailCancelled == Status("FAIL", "cancelled execution: required inputs were unavailable in resource pool")
FailRaised == Status("FAIL", "failed to execute task during task execution")

\* Task.resolve_arguments: Ok(resolved) or Err(status), args taken in order
RECURSIVE resolve_arguments(_, _, _)
resolve_arguments(args, resources, resolved) ==
    IF args = <<>> THEN [ok |-> TRUE, resolved |-> resolved, error |-> Status("SUCCESS", "")]
    ELSE IF Head(args).fwd
         THEN IF task_hash(Head(args).id) \notin DOMAIN resources
              THEN [ok |-> FALSE, resolved |-> <<>>, error |-> FailCancelled]
              ELSE resolve_arguments(Tail(args), resources,
                       Append(resolved, resources[task_hash(Head(args).id)]))
         ELSE resolve_arguments(Tail(args), resources, Append(resolved, Head(args).value))

\* What the action of task t may do once called: raise, or return
\* (output, Status).  The output of task t's action, when it has one, is 10 * t,
\* so that the outputs of two tasks are told apart.
ActionOutput(t) == 10 * t
ActionReturns(t) ==
    {[raised |-> TRUE, output |-> <<>>, status |-> Status("FAIL", "")],
     [raised |-> FALSE, output |-> <<ActionOutput(t)>>, status |-> Status("SUCCESS", "")],
     [raised |-> FALSE, output |-> <<>>, status |-> Status("SUCCESS", "")],
     [raised |-> FALSE, output |-> <<ActionOutput(t)>>, status |-> Status("FAIL", "")]}

\* Task.execute(resources) on a task whose action does `ret` if called: the
\* call record, the outputs slot of the executing object and the Status returned
Task_execute(t, resources, ret) ==
    LET resolved_result == resolve_arguments(input[t].args, resources, <<>>)
    IN IF ~resolved_result.ok
       THEN [call |-> NoCall, outputs |-> input[t].outputs, status |-> resolved_result.error]
       ELSE [call |-> [invoked |-> TRUE, received |-> resolved_result.resolved,
                       raised |-> ret.raised, output |-> ret.output, status |-> ret.status],
             outputs |-> IF ~ret.raised /\ ret.status.status = "SUCCESS" /\ ret.output # <<>>
                         THEN ret.output ELSE input[t].outputs,
             status |-> IF ret.raised THEN FailRaised ELSE ret.status]

\* ------------------------------------------------------------------ TaskExecutor
\* the tasks of the partitions in the order of the two spawn loops
RECURSIVE SpawnOrderFirstOnly(_, _, _)
SpawnOrderFirstOnly(partitioned_tasks, partition_i, process_i) ==
    IF partition_i >= Len(partitioned_tasks) THEN <<>>
    ELSE IF process_i >= 1 \/ process_i >= Len(partitioned_tasks[partition_i + 1])
         THEN SpawnOrderFirstOnly(partitioned_tasks, partition_i + 1, 0)
         ELSE <<[partition_i |-> partition_i, process_i |-> process_i,
                 task |-> partitioned_tasks[partition_i + 1][process_i + 1]]>>
              \o SpawnOrderFirstOnly(partitioned_tasks, partition_i, process_i + 1)

RECURSIVE SpawnOrder(_, _, _)
SpawnOrder(partitioned_tasks, partition_i, process_i) ==
    IF partition_i >= Len(partitioned_tasks) THEN <<>>
    ELSE IF process_i >= Len(partitioned_tasks[partition_i + 1])
         THEN SpawnOrder(partitioned_tasks, partition_i + 1, 0)
         ELSE <<[partition_i |-> partition_i, process_i |-> process_i,
                 task |-> partitioned_tasks[partition_i + 1][process_i + 1]]>>
              \o SpawnOrder(partitioned_tasks, partition_i, process_i + 1)

\* TaskGraph.__next__: is there a node at _iter_depth
StopIterationAfterRoot(g, depth) == depth > 0
StopIteration(g, depth) == depth > total_depth(g)

\* Process.join returns once the process has exited
JoinedAtOnce(state) == TRUE
JoinedNever(state) == FALSE
Joined(state) == state = "exited"

\* self.outputs[task.id_as_int()] = task.outputs
Commit(pool, h, v) == [k \in DOMAIN pool \cup {h} |-> IF k = h THEN v ELSE pool[k]]

\* TaskExecutor.from_tasks: Ok(cls(graph)) or the builder's Err
ExecutorFromTasks ==
    /\ pc = "done"
    /\ executor = "none"
    /\ executor' = result.kind
    /\ outputs' = EmptyPool
    /\ UNCHANGED <<gvars, pvars, ivars, max_processes, epc, iter_depth, to_spawn, processes,
                   shared_results, rd, jn, wstate, wresources, wcall, wresult>>

\* execute(max_processes) is called: iter(self.graph)
ExecuteCall ==
    /\ executor = "Ok"
    /\ epc = "idle"
    /\ \E k \in 1..MaxProcesses : max_processes' = k
    /\ iter_depth' = 0
    /\ epc' = "next"
    /\ UNCHANGED <<gvars, pvars, ivars, executor, outputs, to_spawn, processes,
                   shared_results, rd, jn, wstate, wresources, wcall, wresult>>

\* next(self.graph), then the head of the loop body: partition, processes = [],
\* shared_results = manager.list([])
NextLayer ==
    /\ epc = "next"
    /\ IF StopIteration(root, iter_depth)
       THEN /\ epc' = "returned"
            /\ UNCHANGED <<iter_depth, to_spawn, processes, shared_results>>
       ELSE /\ iter_depth' = iter_depth + 1
            /\ to_spawn' = SpawnOrder(partition(tasks_at(root, iter_depth), max_processes), 0, 0)
            /\ processes' = <<>>
            /\ shared_results' = <<>>
            /\ epc' = "spawn"
    /\ UNCHANGED <<gvars, pvars, ivars, executor, outputs, max_processes, rd, jn,
                   wstate, wresources, wcall, wresult>>

\* Process(target=task_process, args=(task, ..., self.outputs)); start(): the
\* worker gets its own copy of the task and of the pool as it is now
SpawnStep ==
    /\ epc = "spawn"
    /\ to_spawn # <<>>
    /\ LET t == Head(to_spawn).task
       IN /\ wstate' = [wstate EXCEPT ![t] = "started"]
          /\ wresources' = [wresources EXCEPT ![t] = outputs]
          /\ processes' = Append(processes, Head(to_spawn))
    /\ to_spawn' = Tail(to_spawn)
    /\ UNCHANGED <<gvars, pvars, ivars, executor, outputs, max_processes, epc, iter_depth,
                   shared_results, rd, jn, wcall, wresult>>

\* both spawn loops are over: the result loop starts at index 0
SpawnEnd ==
    /\ epc = "spawn"
    /\ to_spawn = <<>>
    /\ rd' = 0
    /\ epc' = "read"
    /\ UNCHANGED <<gvars, pvars, ivars, executor, outputs, max_processes, iter_depth, to_spawn,
                   processes, shared_results, jn, wstate, wresources, wcall, wresult>>

\* one iteration of `for ... in shared_results`: the proxy is read by index
\* (it has no __iter__), each index a call of its own to the manager, so the
\* loop sees what has been appended by the time it asks
ReadStep ==
    /\ epc = "read"
    /\ rd < Len(shared_results)
    /\ LET entry == shared_results[rd + 1]
       IN outputs' = IF entry.status.status = "SUCCESS" /\ entry.outputs # <<>>
                     THEN Commit(outputs, id_as_int(entry.task), entry.outputs[1])
                     ELSE outputs
    /\ rd' = rd + 1
    /\ UNCHANGED <<gvars, pvars, ivars, executor, max_processes, epc, iter_depth, to_spawn,
                   processes, shared_results, jn, wstate, wresources, wcall, wresult>>

\* the index is past the end of the list (IndexError): the loop is over
ReadEnd ==
    /\ epc = "read"
    /\ ~(rd < Len(shared_results))
    /\ jn' = 0
    /\ epc' = "join"
    /\ UNCHANGED <<gvars, pvars, ivars, executor, outputs, max_processes, iter_depth, to_spawn,
                   processes, shared_results, rd, wstate, wresources, wcall, wresult>>

\* one iteration of `for p in processes: p.join()`
JoinStep ==
    /\ epc = "join"
    /\ jn < Len(processes)
    /\ Joined(wstate[processes[jn + 1].task])
    /\ jn' = jn + 1
    /\ UNCHANGED <<gvars, pvars, ivars, executor, outputs, max_processes, epc, iter_depth, to_spawn,
                   processes, shared_results, rd, wstate, wresources, wcall, wresult>>

\* all processes are joined: back to the head of `for depth, node in ...`
JoinEnd ==
    /\ epc = "join"
    /\ ~(jn < Len(processes))
    /\ epc' = "next"
    /\ UNCHANGED <<gvars, pvars, ivars, executor, outputs, max_processes, iter_depth, to_spawn,
                   processes, shared_results, rd, jn, wstate, wresources, wcall, wresult>>

\* TaskExecutor.task_process in the worker of task t: task.execute(resources)
\* on the worker's copies, then shared_results.append and the process exits
WorkerRun(t) ==
    /\ wstate[t] = "started"
    /\ \E ret \in ActionReturns(t) :
          LET done == Task_execute(t, wresources[t], ret)
              me == CHOOSE p \in {processes[k] : k \in DOMAIN processes} : p.task = t
              entry == [partition_i |-> me.partition_i, process_i |-> me.process_i,
                        task |-> t, outputs |-> done.outputs, status |-> done.status]
          IN /\ wcall' = [wcall EXCEPT ![t] = done.call]
             /\ wresult' = [wresult EXCEPT ![t] = entry]
             /\ shared_results' = Append(shared_results, entry)
    /\ wstate' = [wstate EXCEPT ![t] = "exited"]
    /\ UNCHANGED <<gvars, pvars, ivars, executor, outputs, max_processes, epc, iter_depth,
                   to_spawn, processes, rd, jn, wresources>>

\* the worker process of t ends without reaching shared_results.append: its
\* action leaves the process (sys.exit, os._exit, a signal), which neither
\* `except Exception` of Task.execute nor that of task_process intercepts
WorkerCrash(t) ==
    /\ wstate[t] = "started"
    /\ wstate' = [wstate EXCEPT ![t] = "exited"]
    /\ UNCHANGED <<gvars, pvars, ivars, executor, outputs, max_processes, epc, iter_depth,
                   to_spawn, processes, shared_results, rd, jn, wresources, wcall, wresult>>

\* ------------------------------------------------------------------ inputs of the executor
ExecIdentifiers == GraphIdentifiers

\* no argument, the output of a producer, or a literal and then such an output
ExecArgs ==
    {<<>>} \cup {<<ForwardResourcesFrom(x)>> : x \in ExecIdentifiers}
           \cup {<<Literal(7), ForwardResourcesFrom(<<1, <<>>>>)>>}

\* dependencies=None, or one explicitly declared dependency
ExecDependencies == {NoDependencies, SomeDependencies({<<2, <<>>>>})}

ExecTasks ==
    {Task(id, args, d) : id \in ExecIdentifiers, args \in ExecArgs, d \in ExecDependencies}

ExecInputs ==
    {inp \in UNION {[1..n -> ExecTasks] : n \in 1..MaxTasks} : IdentifiersInOrder(inp)}

InitExec ==
    /\ input \in ExecInputs
    /\ BuilderStart(input)
    /\ NotCalledBefore
    /\ PartitionIdle
    /\ ExecutorNone
    /\ InsertIdle

NextExec ==
    \/ SeedStep \/ SeedEnd \/ WhileTest \/ ForStep \/ ForEnd
    \/ ExecutorFromTasks \/ ExecuteCall \/ NextLayer
    \/ SpawnStep \/ SpawnEnd \/ ReadStep \/ ReadEnd \/ JoinStep \/ JoinEnd
    \/ \E t \in DOMAIN input : WorkerRun(t)

SpecExec == InitExec /\ [][NextExec]_vars

\* The pipeline under the scheduling the code relies on.  The calling thread
\* runs from_tasks, then TaskExecutor.from_tasks and execute, one statement
\* after the other and does not stop while a statement of it can run; the
\* operating system runs every started worker process, whose action returns.
MainThread ==
    \/ SeedStep \/ SeedEnd \/ WhileTest \/ ForStep \/ ForEnd
    \/ ExecutorFromTasks \/ ExecuteCall \/ NextLayer
    \/ SpawnStep \/ SpawnEnd \/ ReadStep \/ ReadEnd \/ JoinStep \/ JoinEnd

Fairness ==
    /\ WF_vars(MainThread)
    /\ \A t \in 1..MaxTasks : WF_vars(t \in DOMAIN input /\ WorkerRun(t))

SpecFair == InitExec /\ [][NextExec]_vars /\ Fairness

\* the executor with worker processes that may end abnormally
NextCrash == NextExec \/ \E t \in DOMAIN input : WorkerCrash(t)

SpecCrash == InitExec /\ [][NextCrash]_vars

\* execute(max_processes) is called once more on the same executor, the
\* earlier call having returned: iter(self.graph) starts over, the processes
\* and the shared list of the earlier call are gone, self.outputs is the
\* attribute created in __init__ and is not touched on entry
ExecuteAgain ==
    /\ executor = "Ok"
    /\ epc = "returned"
    /\ \E k \in 1..MaxProcesses : max_processes' = k
    /\ iter_depth' = 0
    /\ epc' = "next"
    /\ to_spawn' = <<>> /\ processes' = <<>> /\ shared_results' = <<>>
    /\ rd' = 0 /\ jn' = 0
    /\ wstate' = [t \in DOMAIN input |-> "none"]
    /\ wresources' = [t \in DOMAIN input |-> EmptyPool]
    /\ wcall' = [t \in DOMAIN input |-> NoCall]
    /\ wresult' = [t \in DOMAIN input |-> NoEntry]
    /\ UNCHANGED <<gvars, pvars, ivars, executor, outputs>>

NextAgain == NextExec \/ ExecuteAgain

\* the executors that are called more than once hold at most MaxAgainTasks tasks
AgainInputs == {inp \in ExecInputs : Len(inp) <= MaxAgainTasks}

InitAgain ==
    /\ input \in AgainInputs
    /\ BuilderStart(input)
    /\ NotCalledBefore
    /\ PartitionIdle
    /\ ExecutorNone
    /\ InsertIdle

SpecAgain == InitAgain /\ [][NextAgain]_vars

\* ------------------------------------------------------------------ partition, called alone
PartitionItems == {1, 2}

InitPartition ==
    /\ p_data \in UNION {[1..n -> PartitionItems] : n \in 0..MaxData}
    /\ p_max \in 0..MaxPartitions
    /\ p_ret = [state |-> "idle", value |-> <<>>]
    /\ input = <<>>
    /\ BuilderStart(input)
    /\ NotCalledBefore
    /\ ExecutorNone
    /\ InsertIdle

\* partition(p_data, p_max): raises when max_partitions < 1
PartitionCall ==
    /\ p_ret.state = "idle"
    /\ p_ret' = IF p_max < 1
                THEN [state |-> "raised", value |-> <<>>]
                ELSE [state |-> "returned", value |-> partition(p_data, p_max)]
    /\ UNCHANGED <<p_data, p_max, gvars, ivars, evars>>

NextPartition == PartitionCall

SpecPartition == InitPartition /\ [][NextPartition]_vars

\* ------------------------------------------------------------------ insert_at, called alone
\* the task lists of a node: the root's may be empty (TaskGraph([])), a
\* further node is created by insert_at with one task and then appended to
LayerTasks == {<<>>, <<1>>, <<2>>, <<1, 2>>, <<2, 1>>}

InsertGraphs ==
    UNION {{g \in [1..n -> LayerTasks] : \A d \in 2..n : g[d] # <<>>} : n \in 1..MaxLayers}

\* three tasks; the graph holds the first two, the third is the one inserted
InsertInput == [k \in 1..3 |-> Task(IdentifierOrder[k], <<>>, NoDependencies)]

InitInsert ==
    /\ input = InsertInput
    /\ tasks = <<>>
    /\ root \in InsertGraphs
    /\ pc = "done"
    /\ i = 0 /\ offset = 0 /\ length = 0
    /\ passes = 0 /\ reset = FALSE
    /\ result = Ok
    /\ examined = <<>>
    /\ NotCalledBefore
    /\ PartitionIdle
    /\ ExecutorNone
    /\ ins_value = 3
    /\ ins_depth \in 0..MaxInsertDepth
    /\ ins_ret = "idle"

\* root.insert_at(ins_value, ins_depth)
InsertAt ==
    /\ ins_ret = "idle"
    /\ root' = insert_at(root, ins_value, ins_depth)
    /\ ins_ret' = "returned"
    /\ UNCHANGED <<input, tasks, pc, i, offset, length, passes, reset, result, first,
                   examined, ins_value, ins_depth, pvars, evars>>

NextInsert == InsertAt

SpecInsert == InitInsert /\ [][NextInsert]_vars

\* ------------------------------------------------------------------ claims: graph
SameIdentifier(x, y) == task_hash(get_value(x)) = task_hash(get_value(y))

Indices(seq) == {seq[k] : k \in DOMAIN seq}

Returned == pc = "done"
ReturnedOk == pc = "done" /\ result.kind = "Ok"

\* the tasks of the layer of depth d
LayerOf(d) == Indices(tasks_at(root, d))
Placed == UNION {LayerOf(d) : d \in 0..total_depth(root)}

\* task a of the input depends on task b of the input
DependsOn(a, b) ==
    \E dep \in input[a].dependencies.ids : SameIdentifier(dep, input[b].identifier)

RECURSIVE TransitiveClosure(_, _)
TransitiveClosure(R, n) ==
    IF n = 0 THEN R
    ELSE TransitiveClosure(
            R \cup {<<a, c>> \in (DOMAIN input) \X (DOMAIN input) :
                       \E b \in DOMAIN input : <<a, b>> \in R /\ <<b, c>> \in R},
            n - 1)

Acyclic ==
    LET R == {<<a, b>> \in (DOMAIN input) \X (DOMAIN input) : DependsOn(a, b)}
    IN \A a \in DOMAIN input : <<a, a>> \notin TransitiveClosure(R, Len(input))

NoMissingProducer ==
    \A a \in DOMAIN input : \A dep \in input[a].dependencies.ids :
        \E b \in DOMAIN input : SameIdentifier(dep, input[b].identifier)

\* C1 (as claimed): whenever from_tasks returns Ok, every dependency of a task
\* placed at depth d is matched by a task of a layer of depth < d.
C1_DependenciesShallower ==
    ReturnedOk =>
        \A d \in 0..total_depth(root) : \A t \in LayerOf(d) :
            \A dep \in input[t].dependencies.ids :
                \E d2 \in 0..(d - 1) : \E p \in LayerOf(d2) :
                    SameIdentifier(dep, input[p].identifier)

\* C2 (as claimed): from_tasks returns Ok if and only if the dependency relation
\* of the input is acyclic and every dependency names a task of the input.
C2_OkIffDagNoMissing ==
    Returned => (result.kind = "Ok" <=> (Acyclic /\ NoMissingProducer))

\* the list [A depends on B, B depends on A]
IsTwoCycle ==
    /\ Len(input) = 2
    /\ ~SameIdentifier(input[1].identifier, input[2].identifier)
    /\ ~input[1].dependencies.isNone /\ ~input[2].dependencies.isNone
    /\ input[1].dependencies.ids = {input[2].identifier}
    /\ input[2].dependencies.ids = {input[1].identifier}

\* C8 (as claimed): for [A depends on B, B depends on A] from_tasks returns the
\* FAIL error "circular or missing dependency".
C8_CycleIsCircularError ==
    (IsTwoCycle /\ Returned) => result = ErrCircular

\* C8 (amended): for [A depends on B, B depends on A] from_tasks returns Err with
\* kind FAIL and the "no root nodes" error; the layering loop is never entered.
C8_CycleIsNoRootNodes ==
    (IsTwoCycle /\ Returned) =>
        /\ result = ErrNoRootNodes
        /\ result.error.status = "FAIL"
        /\ root = << <<>> >>

C8_Witness == IsTwoCycle /\ Returned /\ first.kind = "pending"

\* C9 (as claimed): in a graph returned Ok, layer 0 is exactly the input tasks
\* whose dependency set is empty or absent, in input order, and none of them
\* sits at a depth > 0.
Independent(t) == input[t].dependencies.isNone \/ input[t].dependencies.ids = {}

C9_LayerZeroExact ==
    ReturnedOk =>
        /\ tasks_at(root, 0) = SelectSeq([k \in DOMAIN input |-> k], Independent)
        /\ \A d \in 1..total_depth(root) : \A t \in LayerOf(d) : ~Independent(t)

\* C10: a second from_tasks on an equal list returns the same Ok/Err outcome
\* and, on Ok, the same layers in the same order, whatever the order in which
\* the dependency sets were iterated in either run.
C10_Deterministic ==
    (Returned /\ first.kind # "pending") =>
        /\ result.kind = first.kind
        /\ result.error = first.error
        /\ result.kind = "Ok" => root = first.graph

C10_Witness ==
    /\ ReturnedOk /\ first.kind = "Ok"
    /\ total_depth(root) >= 2
    /\ \E t \in LayerOf(2) : Cardinality(input[t].dependencies.ids) = 2

\* ------------------------------------------------------------------ claims: executor
DepthOf(t) == CHOOSE d \in 0..total_depth(root) : t \in LayerOf(d)

Spawned(t) == wstate[t] # "none"
Exited(t) == wstate[t] = "exited"

\* the action of t was called and returned SUCCESS
ActionSucceeded(t) ==
    wcall[t].invoked /\ ~wcall[t].raised /\ wcall[t].status.status = "SUCCESS"

\* the action of t was called and raised or returned a non-SUCCESS status
ActionFailed(t) ==
    wcall[t].invoked /\ (wcall[t].raised \/ wcall[t].status.status # "SUCCESS")

\* the worker of t is over and the status of t is not SUCCESS
NotSucceeded(t) == Exited(t) /\ wresult[t].status.status # "SUCCESS"

\* argument p of task b is ForwardResourcesFrom(the identifier of task a)
ForwardsAt(b, p, a) ==
    /\ p \in DOMAIN input[b].args
    /\ input[b].args[p].fwd
    /\ SameIdentifier(input[b].args[p].id, input[a].identifier)

Consumes(b, a) == \E p \in DOMAIN input[b].args : ForwardsAt(b, p, a)

\* C3 (as claimed): if A returned SUCCESS with an output v and B, in a later
\* layer, has OutputFrom(A.id) at position p, then B's action is called once
\* B's worker has run, and it receives v at position p.
C3_OutputForwarded ==
    executor = "Ok" =>
        \A a, b \in Placed : \A p \in DOMAIN input[b].args :
            ( /\ ActionSucceeded(a) /\ wcall[a].output # <<>>
              /\ DepthOf(a) < DepthOf(b)
              /\ ForwardsAt(b, p, a)
              /\ Exited(b) )
            => /\ wcall[b].invoked
               /\ wcall[b].received[p] = wcall[a].output[1]

\* C4 (as claimed): if A did not succeed and B has an OutputFrom(A.id) argument,
\* B's action is never called and B's status is not SUCCESS; B being then a
\* task that did not succeed, the same holds of the consumers of B.
C4_FailurePropagates ==
    executor = "Ok" =>
        \A a, b \in Placed :
            (a # b /\ (ActionFailed(a) \/ NotSucceeded(a)) /\ Consumes(b, a))
            => /\ ~wcall[b].invoked
               /\ Exited(b) => wresult[b].status.status # "SUCCESS"

\* C5: no worker of a deeper layer is started while a worker of a shallower
\* layer has not exited.
C5_LayersSerial ==
    executor = "Ok" =>
        \A t, u \in Placed :
            (DepthOf(t) < DepthOf(u) /\ Spawned(u)) => Exited(t)

C5_Witness ==
    /\ executor = "Ok"
    /\ Len(tasks_at(root, 0)) >= 2
    /\ \E u \in LayerOf(1) : wstate[u] = "started"
    /\ max_processes = 2

\* the Status that the worker of t reports: that of its own action, or the
\* FAIL of the argument resolution when the action was not called
OwnStatus(t) ==
    IF wcall[t].invoked
    THEN IF wcall[t].raised THEN FailRaised ELSE wcall[t].status
    ELSE FailCancelled

RanWithOwnStatus(t) ==
    /\ Exited(t)
    /\ wresult[t].task = t
    /\ wresult[t].status = OwnStatus(t)

\* C6: when execute has returned and the action of a task A raised or returned
\* a non-SUCCESS status, every other task of A's layer has run to completion
\* with its own status and every task of every later layer has been given a
\* worker that ran to completion; execute does return in such runs (witness).
C6_FailureIsolated ==
    epc = "returned" =>
        \A a \in Placed : ActionFailed(a) =>
            /\ \A u \in LayerOf(DepthOf(a)) : RanWithOwnStatus(u)
            /\ \A d \in (DepthOf(a) + 1)..total_depth(root) :
                  \A u \in LayerOf(d) : Spawned(u) /\ RanWithOwnStatus(u)

C6_Witness ==
    /\ epc = "returned"
    /\ total_depth(root) >= 1
    /\ \E a, u \in LayerOf(0) :
          /\ a # u
          /\ wcall[a].raised
          /\ ActionSucceeded(u)
    /\ \E u \in LayerOf(1) : ActionSucceeded(u)

\* ------------------------------------------------------------------ claims: partition
Min(a, b) == IF a < b THEN a ELSE b

\* the 0-based input indices that fall in group j (0-based) of g groups
IndicesOfGroup(j, g, n) == {k \in 0..(n - 1) : k % g = j}

Occurrences(seq, v) == Cardinality({k \in DOMAIN seq : seq[k] = v})

RECURSIVE Concat(_)
Concat(groups) == IF groups = <<>> THEN <<>> ELSE Head(groups) \o Concat(Tail(groups))

\* C7: for k >= 1, partition(xs, k) returns g = min(k, len(xs)) groups (none for
\* the empty list); item i is in group i mod g, at the place its input order
\* gives it; the concatenation of the groups is a permutation of xs.
C7_RoundRobin ==
    (p_ret.state # "idle" /\ p_max >= 1) =>
        LET g == Min(p_max, Len(p_data))
            out == p_ret.value
        IN /\ p_ret.state = "returned"
           /\ Len(out) = g
           /\ \A j \in 0..(g - 1) :
                 /\ Len(out[j + 1]) = Cardinality(IndicesOfGroup(j, g, Len(p_data)))
                 /\ \A m \in 1..Len(out[j + 1]) :
                       out[j + 1][m] = p_data[j + (m - 1) * g + 1]
           /\ Len(Concat(out)) = Len(p_data)
           /\ \A v \in PartitionItems :
                 Occurrences(Concat(out), v) = Occurrences(p_data, v)

C7_Witness ==
    /\ p_ret.state = "returned"
    /\ p_max >= 2 /\ Len(p_data) > p_max
    /\ \E a, b \in DOMAIN p_data : p_data[a] # p_data[b]

\* ------------------------------------------------------------------ claims: executor, crashes and repeated calls
\* the worker of t ended without appending an entry to shared_results
Crashed(t) == Exited(t) /\ wresult[t].task # t

\* the layer under iteration has been spawned, read and joined
LayerFinished == epc \in {"next", "returned"} /\ iter_depth >= 1
FinishedLayer == LayerOf(iter_depth - 1)

Recorded(t) == {k \in DOMAIN shared_results : shared_results[k].task = t}

\* C11 (as claimed): when a layer is finished and a worker of it crashed before
\* appending its result, a FAIL result for that worker's task is recorded, and
\* every other worker of the layer has completed with its own result recorded.
C11_CrashReportedAsFail ==
    (executor = "Ok" /\ LayerFinished) =>
        \A t \in FinishedLayer : Crashed(t) =>
            /\ \E k \in Recorded(t) : shared_results[k].status.status = "FAIL"
            /\ \A u \in FinishedLayer \ {t} : ~Crashed(u) =>
                  /\ RanWithOwnStatus(u)
                  /\ \E k \in Recorded(u) : shared_results[k] = wresult[u]

\* a call of execute has just begun: nothing of it is spawned yet
ExecuteStarts == executor = "Ok" /\ epc = "next" /\ iter_depth = 0

\* C12 (as claimed): at the start of every call of execute on the same executor
\* the pool is empty, and so is the pool handed to every worker of the first
\* layer: nothing committed in an earlier call is visible in a later one.
C12_PoolPerCall ==
    /\ ExecuteStarts => outputs = EmptyPool
    /\ executor = "Ok" =>
          \A t \in LayerOf(0) : Spawned(t) => wresources[t] = EmptyPool

\* C13 (as claimed): after execute has returned, the outputs slot of every task
\* of the executor's graph (the caller's object input[t]) whose action returned
\* SUCCESS with an output holds that output.
C13_CallerSeesOutputs ==
    (executor = "Ok" /\ epc = "returned") =>
        \A t \in Placed :
            (ActionSucceeded(t) /\ wcall[t].output # <<>>)
            => input[t].outputs = wcall[t].output

\* the worker of t reported SUCCESS and its task carries an output
ReportedOutput(t) ==
    /\ Exited(t) /\ wresult[t].task = t
    /\ wresult[t].status.status = "SUCCESS"
    /\ wresult[t].outputs # <<>>

\* C14 (as claimed): the supervisor reads the results of a layer only once all
\* the workers of that layer are over, and when a worker of layer d + 1 is
\* spawned the pool holds, under its hash, the output of every task of layer
\* d that reported SUCCESS with an output.
C14_ReadAfterJoin ==
    executor = "Ok" =>
        /\ epc = "read" =>
              \A k \in DOMAIN processes : Exited(processes[k].task)
        /\ \A t, u \in Placed :
              (DepthOf(u) = DepthOf(t) + 1 /\ Spawned(u) /\ ReportedOutput(t))
              => /\ id_as_int(t) \in DOMAIN outputs
                 /\ outputs[id_as_int(t)] = wresult[t].outputs[1]

\* C15 (as claimed): the supervisor's pool changes only in the commit of the
\* supervisor's result loop, and only at a moment when every worker of the
\* current layer has exited and no worker of a later layer has been spawned;
\* no step of a worker changes it.
C15_CommitBetweenLayers ==
    [][outputs' # outputs =>
          /\ epc = "read" /\ rd' = rd + 1
          /\ wstate' = wstate
          /\ \A k \in DOMAIN processes : Exited(processes[k].task)
          /\ \A u \in Placed : DepthOf(u) >= iter_depth => ~Spawned(u)]_vars

\* no two tasks of the input have the same identifier
UniqueIdentifiers ==
    \A a, b \in DOMAIN input :
        a # b => ~SameIdentifier(input[a].identifier, input[b].identifier)

\* the length of the longest dependency path of placed task t, from the depths
\* of the tasks it depends on
LongestPath(t) ==
    IF Independent(t) THEN 0
    ELSE LET depths == {DepthOf(p) : p \in {q \in Placed : DependsOn(t, q)}}
         IN 1 + (CHOOSE d \in depths : \A e \in depths : e <= d)

\* C16 (as claimed): in a graph returned Ok for an input with unique
\* identifiers, the depth of every task is 0 when it has no dependencies and
\* otherwise 1 + the greatest depth of its dependencies.
C16_DepthIsLongestPath ==
    (ReturnedOk /\ UniqueIdentifiers) =>
        \A t \in Placed : DepthOf(t) = LongestPath(t)

\* ------------------------------------------------------------------ claims: layering pass
\* the `for` of the current pass is exhausted
PassOver == pc = "for" /\ ~(i < Len(tasks))

\* C17 (as claimed): in a layering pass no task is examined twice, and when
\* the pass is over every task still in the list has been examined in it,
\* also when the pass removed tasks from the list.
C17_PassExaminesAll ==
    /\ pc = "for" => \A t \in DOMAIN input : Occurrences(examined, t) <= 1
    /\ PassOver => \A t \in Indices(tasks) : Occurrences(examined, t) = 1

\* ------------------------------------------------------------------ claims: argument resolution
\* the worker of t has run and the pool it was given lacks the output of a
\* producer that an argument of t forwards from
MissingInput(t) ==
    /\ Exited(t) /\ wresult[t].task = t
    /\ \E p \in DOMAIN input[t].args :
          /\ input[t].args[p].fwd
          /\ task_hash(input[t].args[p].id) \notin DOMAIN wresources[t]

\* C18 (as claimed): a task whose argument resolution finds a producer's
\* output missing from the pool ends with status kind CANCEL.
C18_MissingInputIsCancel ==
    executor = "Ok" =>
        \A t \in Placed : MissingInput(t) => wresult[t].status.status = "CANCEL"

\* ------------------------------------------------------------------ claims: resource pool
\* C19 (as claimed): in every state of an execute call, every key of the pool
\* is the hash of a task of the graph whose action returned SUCCESS with an
\* output, the value stored being that output, and a task whose action raised
\* or returned a non-SUCCESS status has no entry.
C19_PoolHoldsSuccesses ==
    (executor = "Ok" /\ epc # "idle") =>
        /\ \A h \in DOMAIN outputs :
              \E t \in Placed :
                  /\ id_as_int(t) = h
                  /\ ActionSucceeded(t) /\ wcall[t].output # <<>>
                  /\ outputs[h] = wcall[t].output[1]
        /\ \A t \in Placed : ActionFailed(t) => id_as_int(t) \notin DOMAIN outputs

\* ------------------------------------------------------------------ claims: insert_at
\* C20 (as claimed): after insert_at(task, d) with d >= 0 the graph has a
\* layer of depth d, the task is a member of it and tasks_at(d) yields it.
C20_InsertedAtDepth ==
    ins_ret = "returned" =>
        /\ ins_depth <= total_depth(root)
        /\ ins_value \in Indices(tasks_at(root, ins_depth))

\* ------------------------------------------------------------------ claims: spawning
\* the number of processes started for task t in the layer under iteration
StartedFor(t) == Cardinality({k \in DOMAIN processes : processes[k].task = t})
WaitingFor(t) == Cardinality({k \in DOMAIN to_spawn : to_spawn[k].task = t})

\* the tasks of the layer under iteration
CurrentLayer == LayerOf(iter_depth - 1)

\* what C21 says of a state of an execute call
EachTaskOneWorker ==
    executor = "Ok" =>
        /\ epc = "spawn" =>
              \A t \in DOMAIN input :
                  StartedFor(t) + WaitingFor(t) = (IF t \in CurrentLayer THEN 1 ELSE 0)
        /\ epc \in {"read", "join"} =>
              /\ Len(processes) = Len(tasks_at(root, iter_depth - 1))
              /\ \A t \in DOMAIN input :
                    StartedFor(t) = (IF t \in CurrentLayer THEN 1 ELSE 0)
        /\ epc = "returned" => \A t \in Placed : Spawned(t)

\* what C21 says of a step: a worker is started only for a task that has had
\* none, and a task whose worker is over keeps its terminal state
NoSecondWorker ==
    \A t \in DOMAIN input :
        /\ (wstate[t] # "started" /\ wstate'[t] = "started") => wstate[t] = "none"
        /\ wstate[t] = "exited" => wstate'[t] = "exited"

\* C21: in one execute call every task of the graph is handed to exactly one
\* worker exactly once, never skipped, never started twice, never started again
\* after its worker is over; the number of workers started for a layer is the
\* number of tasks of the layer, whatever max_processes >= 1 is.
C21_EachTaskSpawnedOnce == []EachTaskOneWorker /\ [][NoSecondWorker]_vars

C21_Witness ==
    /\ executor = "Ok" /\ epc = "returned"
    /\ Len(tasks_at(root, 0)) = 2
    /\ max_processes = 1
    /\ total_depth(root) >= 1
    /\ \A t \in Placed : Exited(t)

\* ------------------------------------------------------------------ claims: from_tasks and its input
\* C22: whenever from_tasks returns Ok, the caller's list is empty and every
\* task of the original input is in the graph exactly once, all layers taken
\* together.
C22_InputConsumed ==
    ReturnedOk =>
        /\ tasks = <<>>
        /\ \A t \in DOMAIN input : Occurrences(Concat(root), t) = 1
        /\ Len(Concat(root)) = Len(input)

C22_Witness ==
    /\ ReturnedOk
    /\ first.kind = "pending"
    /\ Len(input) = 3
    /\ Len(tasks_at(root, 0)) = 1
    /\ Len(tasks_at(root, 1)) = 2

\* ------------------------------------------------------------------ claims: termination
\* from_tasks has returned
BuilderDone == pc = "done"

\* the pipeline is over: from_tasks returned Err and so did
\* TaskExecutor.from_tasks, or execute has returned
PipelineDone ==
    \/ pc = "done" /\ executor = "Err"
    \/ pc = "done" /\ executor = "Ok" /\ epc = "returned"

\* a layering pass ends having removed a task from the list, or else with the
\* no-progress counter raised by one, and the counter stays at 2 or below
PassMakesProgress ==
    (pc = "for" /\ pc' = "while") =>
        /\ \/ \E t \in Indices(examined) : t \notin Indices(tasks)
           \/ passes' = passes + 1
        /\ passes' <= 2

\* C23: with the calling thread and every started worker running on,
\* from_tasks returns, every layering pass having removed a task or raised the
\* no-progress counter towards 2, and on Ok execute joins the workers of the
\* last layer and returns.
C23_PipelineTerminates ==
    /\ <>BuilderDone
    /\ <>PipelineDone
    /\ [][PassMakesProgress]_vars

C23_Witness ==
    /\ pc = "done" /\ executor = "Ok" /\ epc = "returned"
    /\ total_depth(root) >= 1
    /\ \A t \in Placed : Exited(t)
    /\ Len(input) = MaxTasks

====
